---- MODULE Spec2Model ----
(***************************************************************************)
(* BlockSystemAccounts (stonix rule 40): report() audits /etc/passwd for   *)
(* system accounts that can log in, fix() rewrites their shell through a   *)
(* temporary file that is renamed over /etc/passwd.                        *)
(*                                                                         *)
(* Text is modelled at character level: a string is a sequence of          *)
(* one-character strings, the file is one flat string, readFile cuts it    *)
(* into lines that keep their "\n". The characters are ASCII.              *)
(*                                                                         *)
(* The rule's file runs under Python 2.7, which it was written for, and    *)
(* under Python 3; the two differ in str.strip(), \s and int(). Which one  *)
(* runs the rule is fixed when the run starts (variable python).           *)
(***************************************************************************)
EXTENDS Integers, Sequences, FiniteSets, TLC

(* ------------------------------------------------------------------ *)
(* Bounds                                                             *)
(* ------------------------------------------------------------------ *)

\* largest number of lines of /etc/passwd that the environment builds
MaxLines == 2

(* ------------------------------------------------------------------ *)
(* String primitives used by report() and fix()                       *)
(* ------------------------------------------------------------------ *)

\* the vertical tab (0x0b) and the separators 0x1c to 0x1f, each written as
\* the character itself
VT == ""
FS == ""
GS == ""
RS == ""
US == ""

\* the interpreters: Python 2 and Python 3
Pythons == {2, 3}

\* C isspace(): space, tab, newline, carriage return, vertical tab, form
\* feed. It is what int() skips under both interpreters and what
\* str.strip() and \s take for whitespace under Python 2.
Space == {" ", "\t", "\n", "\r", VT, "\f"}

\* the whitespace of str.strip() and \s: Python 3 adds the four separators
WS(py) == IF py = 3 THEN Space \cup {FS, GS, RS, US} ELSE Space

IsWS(c, py) == c \in WS(py)

\* s without its leading characters of ws
RECURSIVE LStrip(_, _)
LStrip(s, ws) ==
    IF s # << >> /\ Head(s) \in ws THEN LStrip(Tail(s), ws) ELSE s

\* s without its trailing characters of ws
RECURSIVE RStrip(_, _)
RStrip(s, ws) ==
    IF s # << >> /\ s[Len(s)] \in ws
        THEN RStrip(SubSeq(s, 1, Len(s) - 1), ws)
    ELSE s

\* str.strip()
Strip(s, py) == RStrip(LStrip(s, WS(py)), WS(py))

\* str.split(sep) for a one-character separator: always at least one token
\* the tokens of s from position from on; seps holds the positions of the
\* separators that are still ahead
RECURSIVE SplitFrom(_, _, _)
SplitFrom(s, seps, from) ==
    IF seps = {} THEN << SubSeq(s, from, Len(s)) >>
    ELSE LET to == CHOOSE i \in seps : \A j \in seps : i <= j
         IN  << SubSeq(s, from, to - 1) >> \o SplitFrom(s, seps \ {to}, to + 1)

\* str.split(sep): n separators give n + 1 tokens, empty ones included
Split(s, sep) == SplitFrom(s, { i \in 1..Len(s) : s[i] = sep }, 1)

RECURSIVE Join(_, _)
Join(toks, sep) ==
    IF toks = << >> THEN << >>
    ELSE IF Len(toks) = 1 THEN toks[1]
    ELSE toks[1] \o << sep >> \o Join(Tail(toks), sep)

EndsWith(s, suf) ==
    /\ Len(s) >= Len(suf)
    /\ SubSeq(s, Len(s) - Len(suf) + 1, Len(s)) = suf

\* re "$" without MULTILINE: at the very end, or just before a final "\n"
EndsWithDollar(s, suf) ==
    \/ EndsWith(s, suf)
    \/ /\ s # << >>
       /\ s[Len(s)] = "\n"
       /\ EndsWith(SubSeq(s, 1, Len(s) - 1), suf)

NOLOGIN == <<"/","s","b","i","n","/","n","o","l","o","g","i","n">>
DEVNULL == <<"/","d","e","v","/","n","u","l","l">>

\* re.search(":/sbin/nologin$|:/dev/null$", s)
SearchBlocked(s) ==
    \/ EndsWithDollar(s, << ":" >> \o NOLOGIN)
    \/ EndsWithDollar(s, << ":" >> \o DEVNULL)

\* re.search("^#", line) / re.match('^#', line)
IsComment(line) == line # << >> /\ line[1] = "#"

\* re.match("^\s*$", line)
IsBlank(line, py) == \A i \in 1..Len(line) : IsWS(line[i], py)

\* the value of a decimal digit, 10 for any other character
DigitVal(c) ==
    CASE c = "0" -> 0 [] c = "1" -> 1 [] c = "2" -> 2 [] c = "3" -> 3
      [] c = "4" -> 4 [] c = "5" -> 5 [] c = "6" -> 6 [] c = "7" -> 7
      [] c = "8" -> 8 [] c = "9" -> 9 [] OTHER -> 10

IsDigit(c) == DigitVal(c) < 10

RECURSIVE DecVal(_, _)
DecVal(s, acc) ==
    IF s = << >> THEN acc ELSE DecVal(Tail(s), 10 * acc + DigitVal(Head(s)))

\* the "_" of s stand singly between two other characters
SingleUnderscores(s) ==
    /\ s # << >>
    /\ s[1] # "_"
    /\ s[Len(s)] # "_"
    /\ \A i \in 1..(Len(s) - 1) : ~(s[i] = "_" /\ s[i + 1] = "_")

\* int(tok); anything it does not accept raises ValueError (ok = FALSE).
\* Both interpreters skip the whitespace of isspace() around the number and
\* take one sign. Python 2 also skips whitespace between the sign and the
\* digits ('+ 1' is 1); Python 3 does not, and takes single underscores
\* between digits ('1_0' is 10).
IntOf(tok, py) ==
    LET t    == RStrip(LStrip(tok, Space), Space)
        sgn  == t # << >> /\ Head(t) \in {"+", "-"}
        rest == IF sgn THEN Tail(t) ELSE t
        body == IF py = 2 THEN LStrip(rest, Space) ELSE rest
        digs == IF py = 3 THEN SelectSeq(body, LAMBDA c : c # "_") ELSE body
        good == /\ digs # << >>
                /\ \A i \in 1..Len(digs) : IsDigit(digs[i])
                /\ py = 3 => SingleUnderscores(body)
    IN  IF ~good THEN [ok |-> FALSE, val |-> 0]
        ELSE [ok |-> TRUE,
              val |-> IF sgn /\ Head(t) = "-" THEN 0 - DecVal(digs, 0)
                      ELSE DecVal(digs, 0)]

\* the lines of a file as "for line in f" yields them: each keeps its "\n",
\* a last line without one is yielded as it is
\* (ends holds the positions, still ahead, at which a line ends)
RECURSIVE LinesFrom(_, _, _)
LinesFrom(text, ends, from) ==
    IF ends = {} THEN << >>
    ELSE LET to == CHOOSE e \in ends : \A x \in ends : e <= x
         IN  << SubSeq(text, from, to) >>
             \o LinesFrom(text, ends \ {to}, to + 1)

\* a line ends at each "\n" and at the end of a non-empty text
ReadLines(text) ==
    IF text = << >> THEN << >>
    ELSE LinesFrom(text,
                   { i \in 1..Len(text) : text[i] = "\n" } \cup {Len(text)}, 1)

(* ------------------------------------------------------------------ *)
(* The per-line decisions of report() and fix()                       *)
(* ------------------------------------------------------------------ *)

\* UIDs from this value on belong to human accounts
HumanUidMin == 500

\* line.strip().split(":")
Templine(line, py) == Split(Strip(line, py), ":")

\* not len(templine) >= 6
BadFormat(templine) == ~(Len(templine) >= 6)

\* int(templine[2]) >= 500 or templine[2] == "0"   (Python index 2 = 3rd token)
Exempt(templine, py) ==
    IntOf(templine[3], py).val >= HumanUidMin \/ templine[3] = << "0" >>

\* the two branches of fix() that put the blocking shell into templine
BlockShell(templine) ==
    IF Len(templine) = 6 THEN Append(templine, NOLOGIN)
    ELSE IF Len(templine) = 7 THEN [templine EXCEPT ![7] = NOLOGIN]
    ELSE templine

\* what fix() adds to tempstring for one record that passed the format and
\* the int() checks
FixLine(line, py) ==
    LET templine == Templine(line, py)
    IN  IF Exempt(templine, py) THEN line
        ELSE IF ~SearchBlocked(Strip(line, py))
             THEN Join(BlockShell(templine), ":") \o << "\n" >>
        ELSE line

\* the loop of report() from line i on; retval is the flag so far
RECURSIVE ReportScan(_, _, _, _)
ReportScan(contents, i, retval, py) ==
    IF i > Len(contents) THEN [kind |-> "done", retval |-> retval]
    ELSE LET line     == contents[i]
             templine == Templine(line, py)
         IN  IF IsComment(line) \/ IsBlank(line, py)
                 THEN ReportScan(contents, i + 1, retval, py)
             ELSE IF BadFormat(templine)
                 THEN [kind |-> "badformat", retval |-> retval]
             ELSE IF ~IntOf(templine[3], py).ok
                 THEN [kind |-> "valueerror", retval |-> retval]
             ELSE IF Exempt(templine, py)
                 THEN ReportScan(contents, i + 1, retval, py)
             ELSE IF ~SearchBlocked(line)
                 THEN ReportScan(contents, i + 1, FALSE, py)
             ELSE ReportScan(contents, i + 1, retval, py)

\* the loop of fix() from line i on; acc is tempstring so far
RECURSIVE FixScan(_, _, _, _)
FixScan(contents, i, acc, py) ==
    IF i > Len(contents) THEN [kind |-> "done", tempstring |-> acc]
    ELSE LET line     == contents[i]
             templine == Templine(line, py)
         IN  IF IsComment(line) \/ IsBlank(line, py)
                 THEN FixScan(contents, i + 1, acc \o line, py)
             ELSE IF BadFormat(templine)
                 THEN [kind |-> "badformat", tempstring |-> acc]
             ELSE IF ~IntOf(templine[3], py).ok
                 THEN [kind |-> "valueerror", tempstring |-> acc]
             ELSE FixScan(contents, i + 1, acc \o FixLine(line, py), py)

(* ------------------------------------------------------------------ *)
(* The lines the environment puts into /etc/passwd                    *)
(* ------------------------------------------------------------------ *)

\* 'daemon:x:1:1:daemon:/usr/sbin:/bin/sh\n'   system account, 7 tokens
L_daemon == <<"d","a","e","m","o","n",":","x",":","1",":","1",":","d","a","e","m","o","n",":","/","u","s","r","/","s","b","i","n",":","/","b","i","n","/","s","h","\n">>
\* 'g:x:499:9:g:/h\n'                          system account, 6 tokens
L_noshell == <<"g",":","x",":","4","9","9",":","9",":","g",":","/","h","\n">>
\* 'o:x:2:2:o:/h:/bin/sh:/bin/bash\n'          system account, 8 tokens
L_override == <<"o",":","x",":","2",":","2",":","o",":","/","h",":","/","b","i","n","/","s","h",":","/","b","i","n","/","b","a","s","h","\n">>
\* 'n:x:3:3:n:/h:/sbin/nologin\n'              system account, blocked
L_nologin == <<"n",":","x",":","3",":","3",":","n",":","/","h",":","/","s","b","i","n","/","n","o","l","o","g","i","n","\n">>
\* 'v:x:4:4:v:/h:/dev/null \n'                 blocked, blank before the "\n"
L_devnull_sp == <<"v",":","x",":","4",":","4",":","v",":","/","h",":","/","d","e","v","/","n","u","l","l"," ","\n">>
\* 'root:x:0:0:root:/root:/bin/bash\n'
L_root == <<"r","o","o","t",":","x",":","0",":","0",":","r","o","o","t",":","/","r","o","o","t",":","/","b","i","n","/","b","a","s","h","\n">>
\* 'u:x:500:5:u:/h:/bin/sh\n'                  human account
L_user500 == <<"u",":","x",":","5","0","0",":","5",":","u",":","/","h",":","/","b","i","n","/","s","h","\n">>
\* '#c\n'
L_comment == <<"#","c","\n">>
\* ' \f\n'                                    blank, with a form feed
L_blank == <<" ","\f","\n">>
\* 'm:x:7:7\n'                                 4 tokens
L_short == <<"m",":","x",":","7",":","7","\n">>
\* 'b:x:abc:8:b:/h:/bin/sh\n'                  UID is not an integer
L_baduid == <<"b",":","x",":","a","b","c",":","8",":","b",":","/","h",":","/","b","i","n","/","s","h","\n">>
\* 'd:x:1:1:d:/h:/bin/sh'                      system account, no "\n"
E_daemon == <<"d",":","x",":","1",":","1",":","d",":","/","h",":","/","b","i","n","/","s","h">>
\* 'r:x:0:0:r:/r:/bin/sh'                      root-like, no "\n"
E_root == <<"r",":","x",":","0",":","0",":","r",":","/","r",":","/","b","i","n","/","s","h">>
\* 'z:x:00:0:z:/r:/bin/sh\n'                   UID 0 written "00"
L_root00 == <<"z",":","x",":","0","0",":","0",":","z",":","/","r",":","/","b","i","n","/","s","h","\n">>

\* 'p:x:+ 1:1:p:/h:/bin/sh\n'     UID 1 for Python 2, no integer for Python 3
L_plus == <<"p",":","x",":","+"," ","1",":","1",":","p",":","/","h",":","/","b","i","n","/","s","h","\n">>
\* 'q:x:1_0:1:q:/h:/bin/sh\x1c\n' UID 10 and a trailing blank for Python 3,
\*                                no integer for Python 2
L_under == <<"q",":","x",":","1","_","0",":","1",":","q",":","/","h",":","/","b","i","n","/","s","h","","\n">>

\* the lines, ending in "\n", of the files fix() is run on
PoolFix == { L_daemon, L_noshell, L_override, L_user500, L_comment, L_blank,
             L_short, L_root00, L_plus, L_under }

RECURSIVE Concat(_)
Concat(ls) == IF ls = << >> THEN << >> ELSE Head(ls) \o Concat(Tail(ls))

\* the lines an administrator adds between calls of report() and fix()
PoolCalls == { L_daemon, L_override, L_nologin, L_devnull_sp, L_short,
               L_baduid, L_plus }

\* lines without "\n": only the last line of a file can be one
PoolLast == { E_daemon, E_root }

(* ------------------------------------------------------------------ *)
(* State                                                              *)
(* ------------------------------------------------------------------ *)

VARIABLES
    python,          \* the interpreter that runs the rule: 2 or 3
    file,            \* the text of /etc/passwd
    tmp,             \* /etc/passwd.tmp: [exists, text]
    journal,         \* entries of statechglogger for this rule: [id, kind]
    compliant,       \* self.compliant
    rulesuccess,     \* self.rulesuccess
    detailedresults, \* self.detailedresults, by kind of message
    iditerator,      \* self.iditerator
    pc,              \* where fix() stands; "idle" between calls
    contents,        \* local of fix(): the lines read
    tempstring,      \* local of fix(): the text built
    success,         \* local of fix()
                     \* (the locals are reset when the call ends)
    ret,             \* what the last call returned: "True", "False", "raised"
    call,            \* history: what the current / last call did
    pre,             \* history: the text of /etc/passwd when that call began
    fixedSinceEdit,  \* history: a call of fix() went through the whole
                     \* commit since the file was last edited
    anyFixFailed     \* history: some call of fix() has failed (a malformed
                     \* file or an exception) and returned False

vars == << python, file, tmp, journal, compliant, rulesuccess, detailedresults,
           iditerator, pc, contents, tempstring, success, ret, call, pre,
           fixedSinceEdit, anyFixFailed >>

NoCall == [op |-> "none", enabled |-> FALSE, readOk |-> FALSE,
           permsFailed |-> FALSE, wrote |-> "no", renamed |-> FALSE,
           raised |-> FALSE, afterFailedFix |-> FALSE, afterFix |-> FALSE]

NoTmp == [exists |-> FALSE, text |-> << >>]

BoolStr(b) == IF b THEN "True" ELSE "False"

\* BlockSystemAccounts.__init__; rulesuccess is set by Rule.__init__
Init ==
    /\ python \in Pythons
    /\ file = L_root
    /\ tmp = NoTmp
    /\ journal = {}
    /\ compliant = FALSE
    /\ rulesuccess = TRUE
    /\ detailedresults = "initialize"
    /\ iditerator = 0
    /\ pc = "idle"
    /\ contents = << >>
    /\ tempstring = << >>
    /\ success = TRUE
    /\ ret = "none"
    /\ call = NoCall
    /\ pre = L_root
    /\ fixedSinceEdit = FALSE
    /\ anyFixFailed = FALSE

(* ------------------------------------------------------------------ *)
(* The environment: an administrator edits /etc/passwd between calls   *)
(* ------------------------------------------------------------------ *)

EndsInNewline(text) == IF text = << >> THEN TRUE ELSE text[Len(text)] = "\n"

\* the edit also clears a temporary file that an interrupted fix() left
Edited(text) ==
    /\ file' = text
    /\ pre' = text
    /\ tmp' = NoTmp
    /\ call' = NoCall
    /\ ret' = "none"
    /\ fixedSinceEdit' = FALSE
    /\ UNCHANGED << python, journal, compliant, rulesuccess, detailedresults,
                    iditerator, pc, contents, tempstring, success,
                    anyFixFailed >>

\* a line is added to a file that ends in "\n" and has fewer than MaxLines
AppendLine ==
    /\ pc = "idle"
    /\ EndsInNewline(file)
    /\ Cardinality({ i \in 1..Len(file) : file[i] = "\n" }) < MaxLines
    /\ \E l \in PoolCalls : Edited(file \o l)

\* the text up to the last "\n" before the last character is kept
DropLastLine ==
    /\ pc = "idle"
    /\ file # << >>
    /\ LET before == { i \in 1..(Len(file) - 1) : file[i] = "\n" }
       IN  Edited(IF before = {} THEN << >>
                  ELSE SubSeq(file, 1,
                              CHOOSE i \in before : \A j \in before : j <= i))

(* ------------------------------------------------------------------ *)
(* report()                                                           *)
(* ------------------------------------------------------------------ *)

\* readFile(path, logger): the lines, or [] when the file cannot be read
readFile(text, readable) == IF readable THEN ReadLines(text) ELSE << >>

\* report(), the whole call. readFile returns the lines, returns [] or
\* raises; the loop is run once over the lines. The call returns, or
\* re-raises a KeyboardInterrupt / SystemExit that arrives in readFile
\* ("read": nothing but detailedresults is assigned yet) or in the calls
\* that follow the loop ("end": traceback.format_exc, the logger,
\* formatDetailedResults; an exception of the last two leaves report() the
\* same way). The bad-format branch returns at once and has no such call.
Report ==
    /\ pc = "idle"
    /\ \E read \in {"lines", "empty", "raise"} :
       \E r \in { CASE read = "raise"
                          -> [kind |-> "exception", retval |-> TRUE]
                     \* contents is [], "if contents:" is false and the
                     \* loop is not run
                     [] read = "empty" \/ file = << >>
                          -> [kind |-> "untouched", retval |-> TRUE]
                     [] OTHER
                          -> ReportScan(ReadLines(file), 1, TRUE, python) } :
       \E at \in {"return", "read", "end"} :
         LET kind    == IF at = "read" THEN "untouched" ELSE r.kind
             \* "untouched", "valueerror" and "exception" leave
             \* self.compliant as it is: "except Exception" sets only the
             \* local retval
             verdict == CASE kind = "badformat" -> FALSE
                          [] kind = "done" -> r.retval
                          [] OTHER -> compliant
         IN  /\ at = "end" => kind # "badformat"
             /\ call' = [NoCall EXCEPT !.op = "report",
                                       !.readOk = (read = "lines"),
                                       !.raised = (at # "return")]
             /\ detailedresults' =
                    CASE kind = "badformat" -> "badformat"
                      [] kind \in {"valueerror", "exception"} -> "traceback"
                      [] OTHER -> ""
             /\ compliant' = verdict
             /\ rulesuccess' = IF kind = "badformat" THEN FALSE
                               ELSE rulesuccess
             /\ ret' = IF at # "return" THEN "raised"
                       ELSE IF kind = "badformat" THEN "False"
                       ELSE BoolStr(verdict)
    /\ pre' = file
    /\ UNCHANGED << python, file, tmp, journal, iditerator, pc, contents,
                    tempstring, success, fixedSinceEdit, anyFixFailed >>

(* ------------------------------------------------------------------ *)
(* fix(), one action per call it makes: the action at a pc is that     *)
(* call with the assignments around it, so an exception or interrupt   *)
(* raised by the call leaves from that pc without the call's effect    *)
(* ------------------------------------------------------------------ *)

\* "except Exception" of fix(), its first statement
Caught ==
    /\ rulesuccess' = FALSE
    /\ call' = [call EXCEPT !.raised = TRUE]
    /\ pc' = "caught"

\* the pcs whose call stands inside the try block
InTry == {"ci", "clear", "read", "perms", "setperms", "build", "linecaught",
          "abort", "write", "record", "recordchg", "recordfile", "rename",
          "post"}

\* the call at hand raises an Exception
FixRaise ==
    /\ pc \in InTry
    /\ Caught
    /\ UNCHANGED << python, file, tmp, journal, compliant, detailedresults,
                    iditerator, contents, tempstring, success, ret, pre,
                    fixedSinceEdit, anyFixFailed >>

\* the rest of "except Exception": the traceback is added and logged
FixCaught ==
    /\ pc = "caught"
    /\ detailedresults' = "traceback"
    /\ pc' = "finish"
    /\ UNCHANGED << python, file, tmp, journal, compliant, rulesuccess,
                    iditerator, contents, tempstring, success, ret, call, pre,
                    fixedSinceEdit, anyFixFailed >>

\* fix() is called and enters its try block
FixBegin ==
    /\ pc = "idle"
    /\ pre' = file
    /\ call' = [NoCall EXCEPT !.op = "fix",
                              !.afterFailedFix = anyFixFailed,
                              !.afterFix = fixedSinceEdit]
    /\ ret' = "none"
    /\ pc' = "ci"
    /\ UNCHANGED << python, file, tmp, journal, compliant, rulesuccess,
                    detailedresults, iditerator, contents, tempstring,
                    success, fixedSinceEdit, anyFixFailed >>

\* if not self.ci.getcurrvalue(): return True
\* self.detailedresults = ""; self.iditerator = 0
FixCi ==
    /\ pc = "ci"
    /\ \E enabled \in BOOLEAN :
         /\ call' = [call EXCEPT !.enabled = enabled]
         /\ IF ~enabled
                THEN /\ ret' = "True"
                     /\ pc' = "idle"
                     /\ UNCHANGED << detailedresults, iditerator >>
            ELSE /\ detailedresults' = ""
                 /\ iditerator' = 0
                 /\ pc' = "clear"
                 /\ UNCHANGED ret
    /\ UNCHANGED << python, file, tmp, journal, compliant, rulesuccess,
                    contents, tempstring, success, pre, fixedSinceEdit,
                    anyFixFailed >>

\* statechglogger keeps the events of the rule, each under the id it was
\* recorded with; its calls record the event, or delete it, or raise
recordchgevent(j, id) == j \cup {[id |-> id, kind |-> "conf"]}

recordfilechange(j, id) == j \cup {[id |-> id, kind |-> "filechange"]}

deleteentry(j, event) == j \ {event}

\* setPerms(path, perms, logger, statechglogger, myid): when it has set
\* the permissions it has recorded the old ones under myid
setPerms(j, id, ok) == IF ok THEN j \cup {[id |-> id, kind |-> "perm"]} ELSE j

KindRank(kind) == CASE kind = "perm" -> 1 [] kind = "conf" -> 2 [] OTHER -> 3

\* the first event of findrulechanges(): events come in the order recorded
FirstEvent(j) ==
    CHOOSE e \in j :
        \A f \in j : \/ e.id < f.id
                     \/ e.id = f.id /\ KindRank(e.kind) <= KindRank(f.kind)

\* findrulechanges(); for event in eventlist: deleteentry(event)
FixClear ==
    /\ pc = "clear"
    /\ IF journal = {}
           THEN /\ pc' = "read"
                /\ UNCHANGED journal
       ELSE /\ journal' = deleteentry(journal, FirstEvent(journal))
            /\ pc' = "clear"
    /\ UNCHANGED << python, file, tmp, compliant, rulesuccess,
                    detailedresults, iditerator, contents, tempstring,
                    success, ret, call, pre, fixedSinceEdit, anyFixFailed >>

\* success = True ... contents = readFile(path) ... if contents:
FixRead ==
    /\ pc = "read"
    /\ \E readable \in BOOLEAN :
         /\ contents' = readFile(file, readable)
         /\ call' = [call EXCEPT !.readOk = readable]
         /\ pc' = IF contents' = << >> THEN "finish" ELSE "perms"
    /\ success' = TRUE
    /\ tempstring' = << >>
    /\ UNCHANGED << python, file, tmp, journal, compliant, rulesuccess,
                    detailedresults, iditerator, ret, pre, fixedSinceEdit,
                    anyFixFailed >>

\* checkPerms(path, [0, 0, 420]); when it fails, self.iditerator += 1
FixPerms ==
    /\ pc = "perms"
    /\ \E permsOk \in BOOLEAN :
         IF permsOk
             THEN /\ pc' = "build"
                  /\ UNCHANGED iditerator
         ELSE /\ iditerator' = iditerator + 1
              /\ pc' = "setperms"
    /\ UNCHANGED << python, file, tmp, journal, compliant, rulesuccess,
                    detailedresults, contents, tempstring, success, ret, call,
                    pre, fixedSinceEdit, anyFixFailed >>

\* iterate(); setPerms(...), which journals the old permissions under myid
FixSetPerms ==
    /\ pc = "setperms"
    /\ \E setOk \in BOOLEAN :
         /\ journal' = setPerms(journal, iditerator, setOk)
         /\ success' = setOk
         /\ call' = [call EXCEPT !.permsFailed = ~setOk]
    /\ pc' = "build"
    /\ UNCHANGED << python, file, tmp, compliant, rulesuccess,
                    detailedresults, iditerator, contents, tempstring, ret,
                    pre, fixedSinceEdit, anyFixFailed >>

\* the loop over contents, run once, up to the first statements of its
\* early returns
FixBuild ==
    /\ pc = "build"
    /\ \E r \in { FixScan(contents, 1, << >>, python) } :
           IF r.kind = "done"
               THEN /\ tempstring' = r.tempstring
                    /\ pc' = "write"
                    /\ UNCHANGED << rulesuccess, detailedresults >>
           ELSE IF r.kind = "badformat"
               THEN /\ tempstring' = << >>
                    /\ detailedresults' = "badformat"
                    /\ rulesuccess' = FALSE
                    /\ pc' = "abort"
           \* int() raised: the inner "except Exception" formats and logs
           \* the traceback before it assigns rulesuccess
           ELSE /\ tempstring' = << >>
                /\ detailedresults' = "traceback"
                /\ UNCHANGED rulesuccess
                /\ pc' = "linecaught"
    /\ contents' = << >>
    /\ success' = TRUE
    /\ UNCHANGED << python, file, tmp, journal, compliant, iditerator, ret,
                    call, pre, fixedSinceEdit, anyFixFailed >>

\* the inner "except Exception" after logger.log: self.rulesuccess = False
FixLineCaught ==
    /\ pc = "linecaught"
    /\ rulesuccess' = FALSE
    /\ pc' = "abort"
    /\ UNCHANGED << python, file, tmp, journal, compliant, detailedresults,
                    iditerator, contents, tempstring, success, ret, call, pre,
                    fixedSinceEdit, anyFixFailed >>

\* formatDetailedResults, logdispatch.log, return False
FixAbort ==
    /\ pc = "abort"
    /\ ret' = "False"
    /\ anyFixFailed' = TRUE
    /\ pc' = "idle"
    /\ UNCHANGED << python, file, tmp, journal, compliant, rulesuccess,
                    detailedresults, iditerator, contents, tempstring,
                    success, call, pre, fixedSinceEdit >>

\* variant: the rename is done before anything is journalled
AfterWrite_RenameFirst(ok) == IF ok THEN "rename" ELSE "finish"

\* the step that follows writeFile(tmpfile, tempstring)
AfterWrite(ok) == IF ok THEN "record" ELSE "finish"

\* writeFile(tmpfile, tempstring, self.logger)
FixWrite ==
    /\ pc = "write"
    /\ \E ok \in BOOLEAN :
         /\ tmp' = IF ok THEN [exists |-> TRUE, text |-> tempstring] ELSE tmp
         /\ call' = [call EXCEPT !.wrote = IF ok THEN "ok" ELSE "failed"]
         /\ pc' = AfterWrite(ok)
    /\ UNCHANGED << python, file, journal, compliant, rulesuccess,
                    detailedresults, iditerator, contents, tempstring,
                    success, ret, pre, fixedSinceEdit, anyFixFailed >>

\* self.iditerator += 1; myid = iterate(...)
FixIterate ==
    /\ pc = "record"
    /\ iditerator' = iditerator + 1
    /\ pc' = "recordchg"
    /\ UNCHANGED << python, file, tmp, journal, compliant, rulesuccess,
                    detailedresults, contents, tempstring, success, ret, call,
                    pre, fixedSinceEdit, anyFixFailed >>

\* self.statechglogger.recordchgevent(myid, event)
FixRecordChg ==
    /\ pc = "recordchg"
    /\ journal' = recordchgevent(journal, iditerator)
    /\ pc' = "recordfile"
    /\ UNCHANGED << python, file, tmp, compliant, rulesuccess,
                    detailedresults, iditerator, contents, tempstring,
                    success, ret, call, pre, fixedSinceEdit, anyFixFailed >>

\* self.statechglogger.recordfilechange(path, tmpfile, myid); fix() makes
\* no use of what the call returns: when it returns, os.rename is next
FixRecordFile ==
    /\ pc = "recordfile"
    /\ journal' = recordfilechange(journal, iditerator)
    /\ pc' = "rename"
    /\ UNCHANGED << python, file, tmp, compliant, rulesuccess,
                    detailedresults, iditerator, contents, tempstring,
                    success, ret, call, pre, fixedSinceEdit, anyFixFailed >>

\* os.rename(tmpfile, path)
FixRename ==
    /\ pc = "rename"
    /\ tmp.exists
    /\ file' = tmp.text
    /\ tmp' = NoTmp
    /\ call' = [call EXCEPT !.renamed = TRUE]
    /\ pc' = "post"
    /\ UNCHANGED << python, journal, compliant, rulesuccess, detailedresults,
                    iditerator, contents, tempstring, success, ret, pre,
                    fixedSinceEdit, anyFixFailed >>

\* os.chown, os.chmod, resetsecon
FixPost ==
    /\ pc = "post"
    /\ pc' = "finish"
    /\ UNCHANGED << python, file, tmp, journal, compliant, rulesuccess,
                    detailedresults, iditerator, contents, tempstring,
                    success, ret, call, pre, fixedSinceEdit, anyFixFailed >>

\* formatDetailedResults("fix", ...); return self.rulesuccess
FixFinish ==
    /\ pc = "finish"
    /\ ret' = BoolStr(rulesuccess)
    /\ anyFixFailed' = (anyFixFailed \/ call.raised)
    /\ fixedSinceEdit' = (fixedSinceEdit \/ (call.renamed /\ ~call.raised))
    /\ pc' = "idle"
    /\ contents' = << >>
    /\ tempstring' = << >>
    /\ success' = TRUE
    /\ UNCHANGED << python, file, tmp, journal, compliant, rulesuccess,
                    detailedresults, iditerator, call, pre >>

\* KeyboardInterrupt / SystemExit in the call at hand, re-raised by fix();
\* outside the try block ("caught", "finish") any exception of the call
\* leaves fix() in the same way. The call ends where it stands.
Interrupt ==
    /\ pc # "idle"
    /\ pc' = "idle"
    /\ ret' = "raised"
    /\ call' = [call EXCEPT !.raised = TRUE]
    /\ contents' = << >>
    /\ tempstring' = << >>
    /\ success' = TRUE
    /\ UNCHANGED << python, file, tmp, journal, compliant, rulesuccess,
                    detailedresults, iditerator, pre, fixedSinceEdit,
                    anyFixFailed >>

Next ==
    \/ AppendLine
    \/ DropLastLine
    \/ Report
    \/ FixBegin
    \/ FixCi
    \/ FixClear
    \/ FixRead
    \/ FixPerms
    \/ FixSetPerms
    \/ FixBuild
    \/ FixLineCaught
    \/ FixAbort
    \/ FixWrite
    \/ FixIterate
    \/ FixRecordChg
    \/ FixRecordFile
    \/ FixRename
    \/ FixPost
    \/ FixRaise
    \/ FixCaught
    \/ FixFinish
    \/ Interrupt

Spec == Init /\ [][Next]_vars

(* ------------------------------------------------------------------ *)
(* fix() alone, on every /etc/passwd of at most MaxLines lines         *)
(* ------------------------------------------------------------------ *)

\* the sequences of at most n lines of PoolFix
LineSeqs(n) == UNION { [1..k -> PoolFix] : k \in 0..n }

\* the files of at most MaxLines lines; the last line may lack its "\n"
AllFiles ==
    { Concat(ls) : ls \in LineSeqs(MaxLines) } \cup
    { Concat(ls) \o e : ls \in LineSeqs(MaxLines - 1), e \in PoolLast }

InitFix ==
    /\ python \in Pythons
    /\ file \in AllFiles
    /\ pre = file
    /\ tmp = NoTmp
    /\ journal = {}
    /\ compliant = FALSE
    /\ rulesuccess = TRUE
    /\ detailedresults = "initialize"
    /\ iditerator = 0
    /\ pc = "idle"
    /\ contents = << >>
    /\ tempstring = << >>
    /\ success = TRUE
    /\ ret = "none"
    /\ call = NoCall
    /\ fixedSinceEdit = FALSE
    /\ anyFixFailed = FALSE

NextFix ==
    \/ FixBegin
    \/ FixCi
    \/ FixClear
    \/ FixRead
    \/ FixPerms
    \/ FixSetPerms
    \/ FixBuild
    \/ FixLineCaught
    \/ FixAbort
    \/ FixWrite
    \/ FixIterate
    \/ FixRecordChg
    \/ FixRecordFile
    \/ FixRename
    \/ FixPost
    \/ FixRaise
    \/ FixCaught
    \/ FixFinish
    \/ Interrupt

SpecFix == InitFix /\ [][NextFix]_vars

(* ------------------------------------------------------------------ *)
(* Vocabulary of the claims                                           *)
(* ------------------------------------------------------------------ *)

\* a line that is neither a comment nor blank
Substantive(line) == ~IsComment(line) /\ ~IsBlank(line, python)

\* the colon-delimited tokens of a line, the username first
Tokens(line) == Split(Strip(line, python), ":")

HasUid(line) == Substantive(line) /\ Len(Tokens(line)) >= 3

Uid(line) == IntOf(Tokens(line)[3], python)

\* a record with UID other than 0 and below 500
SystemRecord(line) ==
    /\ Substantive(line)
    /\ LET toks == Tokens(line)
       IN  /\ Len(toks) >= 6
           /\ LET uid == IntOf(toks[3], python)
              IN  uid.ok /\ uid.val # 0 /\ uid.val < 500

\* a record with UID 0 or UID >= 500
ExemptRecord(line) ==
    /\ Substantive(line)
    /\ LET toks == Tokens(line)
       IN  /\ Len(toks) >= 3
           /\ LET uid == IntOf(toks[3], python)
              IN  uid.ok /\ (uid.val = 0 \/ uid.val >= 500)

\* the right-trimmed line ends in :/sbin/nologin or :/dev/null
BlockedRTrim(line) ==
    \/ EndsWith(RStrip(line, WS(python)), << ":" >> \o NOLOGIN)
    \/ EndsWith(RStrip(line, WS(python)), << ":" >> \o DEVNULL)

\* the line as written, less its "\n", ends in :/sbin/nologin or :/dev/null
BlockedAsWritten(line) ==
    LET body == IF line # << >> /\ line[Len(line)] = "\n"
                    THEN SubSeq(line, 1, Len(line) - 1) ELSE line
    IN  \/ EndsWith(body, << ":" >> \o NOLOGIN)
        \/ EndsWith(body, << ":" >> \o DEVNULL)

LinesOf(text) == ReadLines(text)

\* every substantive line has at least 6 tokens and an integer UID
WellFormed(text) ==
    \A i \in 1..Len(LinesOf(text)) :
        Substantive(LinesOf(text)[i]) =>
            /\ Len(Tokens(LinesOf(text)[i])) >= 6
            /\ Uid(LinesOf(text)[i]).ok

\* some substantive line has fewer than 6 tokens
HasShortLine(text) ==
    \E i \in 1..Len(LinesOf(text)) :
        Substantive(LinesOf(text)[i]) /\ Len(Tokens(LinesOf(text)[i])) < 6

\* some substantive line has a UID token that is not an integer
HasBadUid(text) ==
    \E i \in 1..Len(LinesOf(text)) :
        HasUid(LinesOf(text)[i]) /\ ~Uid(LinesOf(text)[i]).ok

HasSystemRecord(text) ==
    \E i \in 1..Len(LinesOf(text)) : SystemRecord(LinesOf(text)[i])

\* a journal entry for the replacement of the file
Replacement(j) == \E e \in j : e.kind = "filechange"

\* the call that ended last
Returned(op) == pc = "idle" /\ call.op = op /\ ret \in {"True", "False"}

\* fix() has renamed the temporary file over /etc/passwd in this call, so
\* pre is the file before and file the file after
Committed == call.op = "fix" /\ call.renamed

(* ------------------------------------------------------------------ *)
(* Claims about one call of fix()  (checked under SpecFix)            *)
(* ------------------------------------------------------------------ *)

\* a system record of the file before the fix that is not blocked
NeedsFix(line) == SystemRecord(line) /\ ~BlockedRTrim(line)

\* C1: fields counted as the spec counts them, after the username: a system
\* record that is not blocked and has 6 fields (7 tokens) comes out with
\* /sbin/nologin appended as a new last field and its shell kept; one with a
\* 7th field (8 tokens) comes out with only that field set to /sbin/nologin.
C1_AsStated ==
    Committed =>
        LET before == LinesOf(pre)
            after  == LinesOf(file)
        IN  \A i \in 1..Len(before) :
                NeedsFix(before[i]) =>
                    LET toks == Tokens(before[i])
                    IN  /\ i <= Len(after)
                        /\ Len(toks) = 7 =>
                               Tokens(after[i]) = Append(toks, NOLOGIN)
                        /\ Len(toks) = 8 =>
                               Tokens(after[i]) = [toks EXCEPT ![8] = NOLOGIN]

\* C2: at every point of a call of fix(), each record whose UID is 0 or is
\* >= 500 stands in the file at the same line number and with the same
\* characters, terminator included, as before the call.
C2_ExemptUntouched ==
    file # pre =>
        LET before == LinesOf(pre)
            after  == LinesOf(file)
        IN  \A i \in 1..Len(before) :
                ExemptRecord(before[i]) =>
                    i <= Len(after) /\ after[i] = before[i]

\* what C9 says of every step of a call of fix()
C9_Step ==
    /\ file' # file =>
           /\ pc = "rename"
           /\ tmp.exists
           /\ file' = tmp.text
           /\ call.wrote = "ok"
           /\ Replacement(journal)
    /\ file' # pre' => Replacement(journal')
    /\ call'.wrote = "failed" => (file' = pre' /\ ~Replacement(journal'))

\* C9: in every step of fix(), interrupts and failures included, the file
\* changes only by the rename of the temporary file, after the temporary file
\* was written and the replacement was journalled; whenever the file differs
\* from what it was when the call began the journal holds a replacement
\* entry; after a failed write the file is as before and no replacement entry
\* is recorded.
C9_RenameOnlyAfterJournal == [][C9_Step]_vars

\* a fix has renamed a changed file into place and was then interrupted
C9_Witness ==
    /\ Committed
    /\ file # pre
    /\ ret = "raised"

(* ------------------------------------------------------------------ *)
(* Claims about sequences of calls  (checked under Spec)              *)
(* ------------------------------------------------------------------ *)

\* every system record is blocked, by its right-trimmed line
AllBlockedRTrim(text) ==
    \A i \in 1..Len(LinesOf(text)) :
        SystemRecord(LinesOf(text)[i]) => BlockedRTrim(LinesOf(text)[i])

\* every system record is blocked, by its line as written
AllBlockedAsWritten(text) ==
    \A i \in 1..Len(LinesOf(text)) :
        SystemRecord(LinesOf(text)[i]) => BlockedAsWritten(LinesOf(text)[i])

\* C3: when fix() has gone through its whole commit twice with no edit in
\* between, the file after the second run equals the file after the first;
\* and a report() that reads the file after such a fix, with no edit in
\* between, returns True.
C3_Idempotent ==
    /\ (Returned("fix") /\ call.afterFix /\ call.renamed /\ ~call.raised)
           => file = pre
    /\ (Returned("report") /\ call.readOk /\ fixedSinceEdit) => ret = "True"

\* C4: a report() that reads a file in which every substantive line has at
\* least 6 tokens and an integer UID returns True exactly when every system
\* record has a right-trimmed line ending in :/sbin/nologin or :/dev/null,
\* whatever earlier calls returned.
C4_VerdictFromFile ==
    (Returned("report") /\ call.readOk /\ WellFormed(file)) =>
        (ret = "True" <=> AllBlockedRTrim(file))

\* C5: on a well-formed file that holds system records, all of them with a
\* line ending in :/sbin/nologin or :/dev/null, report() returns True and an
\* enabled fix() does not write the temporary file, does not rename it over
\* the file and journals no replacement.
C5_NoWriteWhenCompliant ==
    (WellFormed(pre) /\ HasSystemRecord(pre) /\ AllBlockedAsWritten(pre)) =>
        /\ (Returned("report") /\ call.readOk) => ret = "True"
        /\ (call.op = "fix" /\ call.enabled) =>
               /\ call.wrote = "no"
               /\ ~call.renamed
               /\ ~Replacement(journal)

\* C6: when some substantive line of the file has fewer than 6 tokens, a
\* report() that reads it returns False, an enabled fix() that reads it
\* returns False, and fix() writes neither the temporary file nor the file.
C6_ShortLineRejected ==
    HasShortLine(pre) =>
        /\ (Returned("report") /\ call.readOk) => ret = "False"
        /\ (Returned("fix") /\ call.enabled /\ call.readOk) => ret = "False"
        /\ call.op = "fix" => (call.wrote = "no" /\ ~call.renamed)

\* C7: when some substantive line of the file has a UID token that is not an
\* integer, a report() that reads it does not return True, an enabled fix()
\* that reads it returns False, and fix() writes neither the temporary file
\* nor the file.
C7_BadUidRejected ==
    HasBadUid(pre) =>
        /\ (Returned("report") /\ call.readOk) => ret # "True"
        /\ (Returned("fix") /\ call.enabled /\ call.readOk) => ret = "False"
        /\ call.op = "fix" => (call.wrote = "no" /\ ~call.renamed)

\* C8: an enabled fix() in which setPerms or writeFile returned False
\* returns False.
C8_IoFailureReturned ==
    (Returned("fix") /\ call.enabled
        /\ (call.permsFailed \/ call.wrote = "failed")) => ret = "False"

\* C10: an enabled fix() that comes after a fix() that returned False, reads a
\* well-formed file and goes through the whole commit with no failure
\* returns True.
C10_FreshFlag ==
    (Returned("fix") /\ call.enabled /\ call.afterFailedFix /\ call.readOk
        /\ WellFormed(pre) /\ ~call.permsFailed /\ call.wrote = "ok"
        /\ call.renamed /\ ~call.raised) => ret = "True"

====
